---------------------------- MODULE Spec2Model ----------------------------
(***************************************************************************)
(* Model of src/src/python/zfs-snap.py: one run of the snapshot tool.     *)
(* main() connects, logs in, creates a snapshot and, when --prune is      *)
(* truthy, queries the dataset's snapshots and deletes the ones beyond    *)
(* the retention count.  Every ws_call is a send step followed by a       *)
(* receive step; the server's replies are the nondeterministic inputs.    *)
(* Strings that the code inspects (snapshot names, the prefix, the raw    *)
(* creation timestamp) are sequences of one-character strings.            *)
(***************************************************************************)
EXTENDS Integers, Sequences, FiniteSets, TLC

VARIABLES
    pc,          \* position of the single thread of control
    prune,       \* args.prune: <<>> for None, <<n>> for the integer n
    prefix,      \* args.prefix
    keep,        \* prune_snapshots' parameter keep (0 until the call binds it)
    sent,        \* requests written to the connection by ws.send, in order
    recvd,       \* kind of each reply read by ws.recv, in order
    snapshots,   \* resp.get("result", []) of the query
    filtered,    \* the list built at lines 58-66
    to_delete,   \* filtered[keep:]
    idx,         \* position of the for loop of line 71 in to_delete
    req_id,      \* the local req_id of prune_snapshots
    out,         \* lines printed (stdout, and the traceback of a crash)
    exit_code    \* the process's exit status, meaningful when pc = "exited"

vars == <<pc, prune, prefix, keep, sent, recvd, snapshots, filtered,
          to_delete, idx, req_id, out, exit_code>>

---------------------------------------------------------------------------
\* Bounds of the model.
MaxSnaps == 3      \* longest query result
MaxKeep  == 3      \* --prune ranges over -MaxKeep..MaxKeep

\* Request ids fixed by the code.
LoginReqId       == 1
CreateReqId      == 2
QueryReqId       == 3
FirstDeleteReqId == 10

Max(a, b) == IF a >= b THEN a ELSE b
Min(a, b) == IF a <= b THEN a ELSE b

---------------------------------------------------------------------------
\* Inputs.

\* Values argparse can give args.prune: absent, or any int.
PruneArgs == {<<>>} \cup { <<n>> : n \in -MaxKeep .. MaxKeep }

\* Values of args.prefix ("b" plays the part of "backup-").
Prefixes == { <<"b">>, <<"b", "o">>, <<>> }

\* A reply carries a result field or an error field.
Responses == {"result", "error"}

\* Records the server may put in a query result: name and raw creation time.
\* Besides well-formed records inside and outside the prefixes, with equal and
\* different times and a leading zero, the pool holds a name with a second "@",
\* a name without "@" (IndexError) and empty timestamps (ValueError when the
\* record matches, never parsed when it does not).
SnapshotPool ==
    { [name |-> <<"d", "@", "b">>,           rawvalue |-> <<"1">>],
      [name |-> <<"d", "@", "b">>,           rawvalue |-> <<"2">>],
      [name |-> <<"d", "@", "b", "o">>,      rawvalue |-> <<"0", "2">>],
      [name |-> <<"d", "@", "b", "o">>,      rawvalue |-> <<"1", "0">>],
      [name |-> <<"d", "@", "o">>,           rawvalue |-> <<"1", "0">>],
      [name |-> <<"d", "@", "o", "b">>,      rawvalue |-> <<>>],
      [name |-> <<"d", "@", "b", "@", "o">>, rawvalue |-> <<"3">>],
      [name |-> <<"d">>,                     rawvalue |-> <<"1">>],
      [name |-> <<"d", "@", "b">>,           rawvalue |-> <<>>] }

\* The query results: every order of up to MaxSnaps records; the server gives
\* each record its own opaque id (here its position in the result).
QueryResults ==
    UNION { { [i \in 1..n |-> [name |-> s[i].name, rawvalue |-> s[i].rawvalue, id |-> i]] :
              s \in [1..n -> SnapshotPool] } : n \in 0..MaxSnaps }

---------------------------------------------------------------------------
\* String helpers, computed as Python computes them.

\* Index of the first "@" of s, 0 when there is none.
RECURSIVE FindAt(_, _)
FindAt(s, i) ==
    IF i > Len(s) THEN 0
    ELSE IF s[i] = "@" THEN i
    ELSE FindAt(s, i + 1)

\* full.split("@")
RECURSIVE Split(_)
Split(s) ==
    LET i == FindAt(s, 1) IN
    IF i = 0 THEN <<s>>
    ELSE <<SubSeq(s, 1, i - 1)>> \o Split(SubSeq(s, i + 1, Len(s)))

\* full.split("@")[1] raises IndexError when the name holds no "@".
HasShortName(full) == Len(Split(full)) >= 2
ShortName(full) == Split(full)[2]

\* Variant: a filter that lets every shortname through.
StartsWithAny(s, p) == TRUE

\* shortname.startswith(prefix)
StartsWith(s, p) ==
    /\ Len(p) <= Len(s)
    /\ SubSeq(s, 1, Len(p)) = p

DigitVal == ("0" :> 0) @@ ("1" :> 1) @@ ("2" :> 2) @@ ("3" :> 3)

\* int(rawvalue) raises ValueError unless the string is a decimal numeral.
IsInt(raw) == Len(raw) > 0 /\ \A i \in 1..Len(raw) : raw[i] \in DOMAIN DigitVal

RECURSIVE ParseInt(_)
ParseInt(raw) ==
    IF raw = <<>> THEN 0
    ELSE 10 * ParseInt(SubSeq(raw, 1, Len(raw) - 1)) + DigitVal[raw[Len(raw)]]

---------------------------------------------------------------------------
\* The selection of prune_snapshots.

\* What one iteration of the loop of lines 59-64 raises on snap, if anything.
SnapError(snap, p) ==
    IF ~HasShortName(snap.name) THEN "IndexError"
    ELSE IF StartsWith(ShortName(snap.name), p) /\ ~IsInt(snap.rawvalue) THEN "ValueError"
    ELSE "none"

\* The exception that ends the loop: that of the first record that raises.
RECURSIVE FilterError(_, _)
FilterError(snaps, p) ==
    IF snaps = <<>> THEN "none"
    ELSE IF SnapError(Head(snaps), p) # "none" THEN SnapError(Head(snaps), p)
    ELSE FilterError(Tail(snaps), p)

\* filtered after the loop: (created, shortname, id) of the matching records.
RECURSIVE Filter(_, _)
Filter(snaps, p) ==
    IF snaps = <<>> THEN <<>>
    ELSE LET snap == Head(snaps)
             shortname == ShortName(snap.name)
         IN  IF StartsWith(shortname, p)
             THEN <<<<ParseInt(snap.rawvalue), shortname, snap.id>>>> \o Filter(Tail(snaps), p)
             ELSE Filter(Tail(snaps), p)

\* Variant: the order of an ascending sort (reverse=True dropped).
StaysAheadAscending(x, e) == x[1] <= e[1]

\* sort(key=lambda x: x[0], reverse=True): x stays ahead of a later element e
\* iff x's key is not smaller (the sort is stable).
StaysAhead(x, e) == x[1] >= e[1]

RECURSIVE InsertSorted(_, _)
InsertSorted(s, e) ==
    IF s = <<>> THEN <<e>>
    ELSE IF StaysAhead(Head(s), e) THEN <<Head(s)>> \o InsertSorted(Tail(s), e)
    ELSE <<e>> \o s

RECURSIVE SortDesc(_)
SortDesc(s) ==
    IF s = <<>> THEN <<>>
    ELSE InsertSorted(SortDesc(SubSeq(s, 1, Len(s) - 1)), s[Len(s)])

\* s[k:] with Python's treatment of negative and oversized k.
SliceFrom(s, k) ==
    LET n == Len(s)
        start == IF k < 0 THEN Max(n + k, 0) ELSE Min(k, n)
    IN  SubSeq(s, start + 1, n)

---------------------------------------------------------------------------
\* ws_call: json.dumps + ws.send, then ws.recv + json.loads.

WsSend(method, params, id) ==
    sent' = Append(sent, [method |-> method, id |-> id, params |-> params])

\* Variant: a ws_call that returns without reading the reply.
WsRecvSkipped(resp) == recvd' = recvd

WsRecv(resp) == recvd' = Append(recvd, resp)

\* Variant: a test that never sees the error field.
NeverFailed(resp) == FALSE

\* "error" in resp, as login and create_snapshot test it.
LoginFailed(resp)  == resp = "error"
CreateFailed(resp) == resp = "error"

\* Variant: a loop that stops at the first rejected deletion.
DeleteErrorIsFatal(resp) == resp = "error"

\* The return value of the delete call is discarded: no reply ends the loop.
DeleteAborts(resp) == FALSE

\* Variant: a counter that is not advanced.
SameReqId(r) == r

\* req_id += 1
NextReqId(r) == r + 1

\* `if args.prune:` -- None and 0 are falsy.
PruneRequested(p) == p # <<>> /\ p[1] # 0

Exit(code) == pc' = "exited" /\ exit_code' = code
PrintLine(line) == out' = Append(out, line)

---------------------------------------------------------------------------
Init ==
    /\ pc = "connect"
    /\ prune \in PruneArgs
    /\ prefix \in Prefixes
    /\ keep = 0
    /\ sent = <<>>
    /\ recvd = <<>>
    /\ snapshots = <<>>
    /\ filtered = <<>>
    /\ to_delete = <<>>
    /\ idx = 0
    /\ req_id = 0
    /\ out = <<>>
    /\ exit_code = 0

\* ws_connect: the connection is made, or create_connection raises.
Connect ==
    /\ pc = "connect"
    /\ \E ok \in BOOLEAN :
         IF ok THEN /\ pc' = "login_send"
                    /\ UNCHANGED <<out, exit_code>>
         ELSE /\ PrintLine(<<"Traceback", "ConnectionError">>)
              /\ Exit(1)
    /\ UNCHANGED <<prune, prefix, keep, sent, recvd, snapshots, filtered,
                   to_delete, idx, req_id>>

SendLogin ==
    /\ pc = "login_send"
    /\ WsSend("auth.login_with_api_key", <<"token">>, LoginReqId)
    /\ pc' = "login_recv"
    /\ UNCHANGED <<prune, prefix, keep, recvd, snapshots, filtered, to_delete,
                   idx, req_id, out, exit_code>>

RecvLogin ==
    /\ pc = "login_recv"
    /\ \E resp \in Responses :
         /\ WsRecv(resp)
         /\ IF LoginFailed(resp)
            THEN /\ PrintLine(<<"Login failed:", resp>>)
                 /\ Exit(1)
            ELSE /\ pc' = "create_send"
                 /\ UNCHANGED <<out, exit_code>>
    /\ UNCHANGED <<prune, prefix, keep, sent, snapshots, filtered, to_delete,
                   idx, req_id>>

SendCreate ==
    /\ pc = "create_send"
    /\ PrintLine(<<"Creating snapshot:", "snapname">>)
    /\ WsSend("pool.snapshot.create", <<"dataset", "snapname">>, CreateReqId)
    /\ pc' = "create_recv"
    /\ UNCHANGED <<prune, prefix, keep, recvd, snapshots, filtered, to_delete,
                   idx, req_id, exit_code>>

RecvCreate ==
    /\ pc = "create_recv"
    /\ \E resp \in Responses :
         /\ WsRecv(resp)
         /\ IF CreateFailed(resp)
            THEN /\ PrintLine(<<"ERROR:", resp>>)
                 /\ Exit(1)
            ELSE /\ PrintLine(<<"OK:", resp>>)
                 /\ pc' = "prune_check"
                 /\ UNCHANGED exit_code
    /\ UNCHANGED <<prune, prefix, keep, sent, snapshots, filtered, to_delete,
                   idx, req_id>>

\* main, lines 125-126: call prune_snapshots or fall off the end of main.
CheckPrune ==
    /\ pc = "prune_check"
    /\ IF PruneRequested(prune)
       THEN /\ keep' = prune[1]
            /\ pc' = "query_send"
            /\ UNCHANGED exit_code
       ELSE /\ Exit(0)
            /\ UNCHANGED keep
    /\ UNCHANGED <<prune, prefix, sent, recvd, snapshots, filtered, to_delete,
                   idx, req_id, out>>

SendQuery ==
    /\ pc = "query_send"
    /\ PrintLine(<<"Pruning snapshots", "keep">>)
    /\ WsSend("pool.snapshot.query", <<"dataset", "order_by name">>, QueryReqId)
    /\ pc' = "query_recv"
    /\ UNCHANGED <<prune, prefix, keep, recvd, snapshots, filtered, to_delete,
                   idx, req_id, exit_code>>

\* Lines 55-70: the reply, the filter loop, the sort and the slice.
RecvQuery ==
    /\ pc = "query_recv"
    /\ \E resp \in Responses, result \in QueryResults :
         /\ resp = "error" => result = <<>>
         /\ WsRecv(resp)
         /\ snapshots' = result
         /\ IF FilterError(result, prefix) # "none"
            THEN /\ PrintLine(<<"Traceback", FilterError(result, prefix)>>)
                 /\ Exit(1)
                 /\ UNCHANGED <<filtered, to_delete, idx, req_id>>
            ELSE /\ filtered' = SortDesc(Filter(result, prefix))
                 /\ to_delete' = SliceFrom(filtered', keep)
                 /\ req_id' = FirstDeleteReqId
                 /\ idx' = 1
                 /\ pc' = "delete_loop"
                 /\ UNCHANGED <<out, exit_code>>
    /\ UNCHANGED <<prune, prefix, keep, sent>>

SendDelete ==
    /\ pc = "delete_loop"
    /\ idx <= Len(to_delete)
    /\ PrintLine(<<"Deleting:", to_delete[idx][2]>>)
    /\ WsSend("pool.snapshot.delete", <<to_delete[idx][3]>>, req_id)
    /\ pc' = "delete_recv"
    /\ UNCHANGED <<prune, prefix, keep, recvd, snapshots, filtered, to_delete,
                   idx, req_id, exit_code>>

RecvDelete ==
    /\ pc = "delete_recv"
    /\ \E resp \in Responses :
         /\ WsRecv(resp)
         /\ IF DeleteAborts(resp)
            THEN /\ PrintLine(<<"Traceback", "DeleteError">>)
                 /\ Exit(1)
                 /\ UNCHANGED <<req_id, idx>>
            ELSE /\ req_id' = NextReqId(req_id)
                 /\ idx' = idx + 1
                 /\ pc' = "delete_loop"
                 /\ UNCHANGED <<out, exit_code>>
    /\ UNCHANGED <<prune, prefix, keep, sent, snapshots, filtered, to_delete>>

\* Line 76, then main returns.
FinishPrune ==
    /\ pc = "delete_loop"
    /\ idx > Len(to_delete)
    /\ PrintLine(<<"Prune completed.", "">>)
    /\ Exit(0)
    /\ UNCHANGED <<prune, prefix, keep, sent, recvd, snapshots, filtered,
                   to_delete, idx, req_id>>

Next ==
    \/ Connect
    \/ SendLogin
    \/ RecvLogin
    \/ SendCreate
    \/ RecvCreate
    \/ CheckPrune
    \/ SendQuery
    \/ RecvQuery
    \/ SendDelete
    \/ RecvDelete
    \/ FinishPrune

Spec == Init /\ [][Next]_vars

---------------------------------------------------------------------------
\* prune_snapshots called on its own: the connection is logged in, the
\* snapshot is created, and keep is any integer, 0 included.
PruneInit ==
    /\ pc = "query_send"
    /\ keep \in -MaxKeep .. MaxKeep
    /\ prune = <<keep>>
    /\ prefix \in Prefixes
    /\ sent = << [method |-> "auth.login_with_api_key", id |-> LoginReqId,
                  params |-> <<"token">>],
                 [method |-> "pool.snapshot.create", id |-> CreateReqId,
                  params |-> <<"dataset", "snapname">>] >>
    /\ recvd = <<"result", "result">>
    /\ snapshots = <<>>
    /\ filtered = <<>>
    /\ to_delete = <<>>
    /\ idx = 0
    /\ req_id = 0
    /\ out = << <<"Creating snapshot:", "snapname">>, <<"OK:", "result">> >>
    /\ exit_code = 0

PruneNext ==
    \/ SendQuery
    \/ RecvQuery
    \/ SendDelete
    \/ RecvDelete
    \/ FinishPrune

PruneSpec == PruneInit /\ [][PruneNext]_vars

---------------------------------------------------------------------------
\* Vocabulary of the properties, stated apart from the code's own helpers.

IsDelete(m) == m.method = "pool.snapshot.delete"
IsQuery(m)  == m.method = "pool.snapshot.query"
IsCreate(m) == m.method = "pool.snapshot.create"
IsLogin(m)  == m.method = "auth.login_with_api_key"

CallsWhere(P(_)) == { i \in 1..Len(sent) : P(sent[i]) }
DeleteCalls == CallsWhere(IsDelete)
DeletedIds == { sent[i].params[1] : i \in DeleteCalls }

\* s begins with p.
HasPrefix(s, p) == Len(p) <= Len(s) /\ \A k \in 1..Len(p) : s[k] = p[k]

\* The part of a snapshot's name after its first "@".
AfterAt(name) == SubSeq(name, FindAt(name, 1) + 1, Len(name))

Matches(snap) == FindAt(snap.name, 1) # 0 /\ HasPrefix(AfterAt(snap.name), prefix)
MatchingIds == { i \in 1..Len(snapshots) : Matches(snapshots[i]) }
RetainedIds == MatchingIds \ DeletedIds
Created(i) == ParseInt(snapshots[i].rawvalue)

LoginSucceeded  == Len(recvd) >= 1 /\ recvd[1] = "result"
CreateSucceeded == Len(recvd) >= 2 /\ recvd[2] = "result"
QueryAnswered   == Len(recvd) >= 3
Printed(tag) == \E i \in 1..Len(out) : out[i][1] = tag
Crashed == Printed("Traceback")

\* The prune pass ran to its end: the query was answered and the process is over
\* without an exception.
PruneOver == pc = "exited" /\ QueryAnswered /\ ~Crashed

---------------------------------------------------------------------------
\* C1: no pool.snapshot.delete call is ever sent for a snapshot whose shortname
\* (the part of its name after "@") does not start with the prefix, whatever the
\* query result, the prefix and keep (positive, zero or negative).
C1_OnlyMatchingDeleted ==
    \A i \in DeleteCalls :
        /\ sent[i].params[1] \in 1..Len(snapshots)
        /\ Matches(snapshots[sent[i].params[1]])

\* keep = 0, a delete was sent, and the result holds a record outside the prefix.
C1_Witness ==
    /\ PruneOver
    /\ keep = 0
    /\ DeleteCalls # {}
    /\ \E i \in 1..Len(snapshots) : ~Matches(snapshots[i])

\* C2: when the pass is over, the matching records split into retained and
\* doomed (one delete call each), with |retained| <= max(keep, 0); keep <= 0
\* dooms every matching record and keep >= |matching| dooms none.
C2_PartitionByKeep ==
    PruneOver =>
        /\ DeletedIds \subseteq MatchingIds
        /\ Cardinality(DeleteCalls) = Cardinality(DeletedIds)
        /\ Cardinality(RetainedIds) + Cardinality(DeletedIds) = Cardinality(MatchingIds)
        /\ Cardinality(RetainedIds) <= Max(keep, 0)
        /\ (keep <= 0 => RetainedIds = {})
        /\ (keep >= Cardinality(MatchingIds) => DeletedIds = {})

\* C3: with keep >= 1, when the pass is over every deleted matching snapshot is
\* no newer than every matching snapshot that was not deleted, in whatever
\* order the server returned the records.
C3_NewestRetained ==
    (PruneOver /\ keep >= 1) =>
        \A d \in DeletedIds : \A r \in RetainedIds : Created(d) <= Created(r)

\* keep >= 1, a strictly older snapshot that the server listed before a newer
\* one was deleted and the newer one retained, and a record outside the prefix
\* is newer than both.
C3_Witness ==
    /\ PruneOver
    /\ keep >= 1
    /\ \E d \in DeletedIds : \E r \in RetainedIds :
         /\ Created(d) < Created(r)
         /\ d < r
    /\ \E i \in 1..Len(snapshots) :
         /\ ~Matches(snapshots[i])
         /\ IsInt(snapshots[i].rawvalue)
         /\ \A m \in MatchingIds : Created(i) > Created(m)

\* C4: in a finished run where login and creation succeeded, the pruner ran
\* exactly once (one query) if --prune was given any integer, 0 included, and
\* no query or delete was sent if --prune was not given.
C4_PrunerRunsIffSupplied ==
    (pc = "exited" /\ LoginSucceeded /\ CreateSucceeded) =>
        /\ prune # <<>> => Cardinality(CallsWhere(IsQuery)) = 1
        /\ prune = <<>> => CallsWhere(IsQuery) = {} /\ DeleteCalls = {}

\* C5: once the reply to pool.snapshot.create carries an error, the process has
\* exited with status 1 and no query or delete call is sent, whatever --prune.
C5_CreateErrorIsFatal ==
    (Len(recvd) >= 2 /\ recvd[2] = "error") =>
        /\ pc = "exited"
        /\ exit_code = 1
        /\ CallsWhere(IsQuery) = {}
        /\ DeleteCalls = {}

\* Creation failed in a run that asked for pruning.
C5_Witness ==
    /\ Len(recvd) >= 2
    /\ recvd[2] = "error"
    /\ PruneRequested(prune)
    /\ pc = "exited"

\* C6: once the reply to the login carries an error, the process has exited
\* with a non-zero status and only the login was ever sent; and every create,
\* query or delete call sent comes after a login whose reply had no error.
C6_LoginGatesPrivileged ==
    /\ (Len(recvd) >= 1 /\ recvd[1] = "error") =>
          /\ pc = "exited"
          /\ exit_code # 0
          /\ \A i \in 1..Len(sent) : IsLogin(sent[i])
    /\ \A i \in 1..Len(sent) :
          (IsCreate(sent[i]) \/ IsQuery(sent[i]) \/ IsDelete(sent[i])) =>
              \E j \in 1..(i - 1) :
                  /\ IsLogin(sent[j])
                  /\ Len(recvd) >= j
                  /\ recvd[j] = "result"

\* The login failed in a run that asked for pruning.
C6_WitnessFailed ==
    /\ Len(recvd) = 1
    /\ recvd[1] = "error"
    /\ PruneRequested(prune)
    /\ pc = "exited"

\* C7: when the reply to pool.snapshot.query carries an error and no result,
\* the process ends with a diagnostic and a non-zero status, sends no delete
\* and does not print "Prune completed.".
C7_QueryErrorIsFatal ==
    (pc = "exited" /\ QueryAnswered /\ recvd[3] = "error") =>
        /\ exit_code # 0
        /\ ~Printed("Prune completed.")
        /\ DeleteCalls = {}

\* C8: whatever the replies to the delete calls, the delete calls sent are the
\* doomed records' ids in their sorted, newest-first order, one each, and once
\* the process is over every doomed record has its call, the last line printed
\* is the completion notice and the exit status is 0.
C8_DeleteErrorsIgnored ==
    (QueryAnswered /\ FilterError(snapshots, prefix) = "none") =>
        /\ Cardinality(DeleteCalls) <= Len(to_delete)
        /\ \A i \in DeleteCalls : sent[i].params[1] = to_delete[i - 3][3]
        /\ \A i, j \in DeleteCalls :
              i < j => Created(sent[i].params[1]) >= Created(sent[j].params[1])
        /\ pc = "exited" =>
              /\ Cardinality(DeleteCalls) = Len(to_delete)
              /\ out[Len(out)][1] = "Prune completed."
              /\ exit_code = 0

\* The first of at least two deletions was answered with an error and the run
\* is over.
C8_Witness ==
    /\ pc = "exited"
    /\ Len(to_delete) >= 2
    /\ Len(recvd) >= 5
    /\ recvd[4] = "error"
    /\ recvd[5] = "result"

\* C9: at most one request is outstanding at any time, and the requests sent
\* are a prefix of login, create, query, delete*: one login once anything was
\* sent, at most one create and one query.
C9_SequentialCalls ==
    /\ Len(sent) - Len(recvd) \in {0, 1}
    /\ \A i \in 1..Len(sent) :
          /\ i = 1 => IsLogin(sent[i])
          /\ i = 2 => IsCreate(sent[i])
          /\ i = 3 => IsQuery(sent[i])
          /\ i >= 4 => IsDelete(sent[i])
    /\ pc \notin {"connect", "login_send", "exited"} => Len(sent) >= 1
    /\ pc \in {"login_recv", "create_recv", "query_recv", "delete_recv"}
          <=> Len(sent) - Len(recvd) = 1

\* A run with two deletions, the second still awaiting its reply.
C9_Witness ==
    /\ pc = "delete_recv"
    /\ Len(sent) = 5
    /\ Len(recvd) = 4

\* C10: the request ids sent on the connection are strictly increasing in send
\* order, hence pairwise distinct.
C10_RequestIdsIncrease ==
    \A i, j \in 1..Len(sent) : i < j => sent[i].id < sent[j].id

\* A run that sent at least two deletions.
C10_Witness ==
    /\ pc = "exited"
    /\ Cardinality(DeleteCalls) >= 2

=============================================================================
